---------------------------- MODULE Spec2Model ----------------------------
(***************************************************************************)
(* Job lifecycle of the background-removal service: the Redis-backed job   *)
(* queue (api/internal/queue/redis_queue.go), the HTTP handlers that       *)
(* submit and query jobs (api/internal/handlers/handlers.go) and the       *)
(* worker loop that consumes the queue (processor/src/worker.py, which is  *)
(* not among the source files and is modelled from spec.md section 4.4).   *)
(***************************************************************************)
EXTENDS Integers, Sequences, FiniteSets, TLC

(***************************************************************************)
(* Bounds of the model.                                                    *)
(***************************************************************************)
\* Number of distinct values generateID can return (2^64 in the code).
NumIDs == 2
\* Concurrent requests inside ProcessImage (one goroutine per request).
NumProducers == 2
\* Worker processes (NUM_WORKERS).
NumWorkers == 2
\* Most job records AddJob creates in one run.
MaxSubmits == 2
\* The clock stops after this many half days.
MaxHalfDays == 3
\* Clock resolution: ticks per second (time.Time has nanoseconds).
TicksPerSecond == 2

IDs == 1..NumIDs
Producers == 1..NumProducers
Workers == 1..NumWorkers

\* c.Query("id") / c.Param("id") of a request that carries no id.
EmptyID == 0

Second == TicksPerSecond
Hour == 3600 * Second
HalfDay == 12 * Hour
\* 24*time.Hour, the expiration AddJob and UpdateJob pass to Set.
TTL == 24 * Hour
MaxTime == MaxHalfDays * HalfDay + Second

\* JobStatus
StatusPending == "pending"
StatusProcessing == "processing"
StatusCompleted == "completed"
StatusFailed == "failed"

\* Error messages the external transform can fail with.
TransformErrors == {"decode error"}

\* (*Job)(nil) and redis.Nil: no value.
Nil == [nil |-> TRUE]

VARIABLES
    store,      \* Redis string keys "job:<id>": id -> Job or Nil
    expireAt,   \* expiry time of key "job:<id>" (0: no key)
    queue,      \* Redis list "pending_jobs": head is the LPush end
    now,        \* wall clock, in ticks
    files,      \* paths of the result files present on disk
    ppc,        \* per request in ProcessImage: "idle" | "lpush"
    pjob,       \* per request in ProcessImage: the job AddJob is adding
    wpc,        \* per worker: "idle" | "popped" | "loaded" | "processing"
    wid,        \* per worker: the id RPop returned (EmptyID: none)
    wjob,       \* per worker: its copy of the job (Nil: none)
    resp,       \* the HTTP response on its way to the client (NoResp: none)
    added,      \* history: id -> number of records AddJob has SET for it
    returned,   \* history: id -> number of Submits that returned it (202)
    delivered,  \* history: id -> number of times a dequeue returned it
    failure,    \* history: id -> the last transform failure captured for it
    lost,       \* history: id -> a store call failed while enqueueing or
                \*          dequeueing it, and the ID was dropped
    waiting,    \* history: the IDs enqueued and not yet dequeued, in the
                \*          order in which their LPUSHes completed
    started,    \* history: id -> number of times a transform was started for it
    skipped,    \* history: id -> a dequeue of it found no record and dropped it
    gids,       \* GetPendingJobs in progress: the IDs of jobIDs still to visit
    gjobs,      \* GetPendingJobs in progress: the jobs appended so far
    processingState, \* the browser: "idle", "processing", "completed", "error"
    jobId,      \* the browser: the job it polls (EmptyID: none)
    pollpc,     \* the browser's poll: "none" | "get" | "await" | "timeout"
    pollingTimeout,  \* the delay of the pending setTimeout (0: none)
    api,        \* the API process: "starting", "serving" or "exited"
    pinged      \* history: the API process's startup ping reached the store

vars == <<store, expireAt, queue, now, files, ppc, pjob, wpc, wid, wjob,
          resp, added, returned, delivered, failure, lost, waiting, started,
          skipped, gids, gjobs, processingState, jobId, pollpc, pollingTimeout,
          api, pinged>>
histVars == <<added, returned, delivered, failure, lost, waiting, started, skipped>>

storeVars == <<store, expireAt>>
workerVars == <<wpc, wid, wjob>>
producerVars == <<ppc, pjob>>
apiVars == <<api, pinged>>
listVars == <<gids, gjobs>>
pollVars == <<processingState, jobId, pollpc, pollingTimeout>>

(***************************************************************************)
(* Values                                                                  *)
(***************************************************************************)
\* filepath.Join(h.uploadDir, jobID + ext)
UploadPath(id) == <<"uploads", id>>
\* The output reference the transform produces for a job.
ResultPath(id) == <<"results", id>>
\* The empty string of Error, and of OutputPath.
Empty == ""
EmptyPath == <<>>

\* Job as ProcessImage builds it (handlers.go 67-71).
NewJob(id) ==
    [id |-> id, status |-> StatusPending, input_path |-> UploadPath(id),
     output_path |-> EmptyPath, error |-> Empty, created_at |-> 0, updated_at |-> 0]

\* time.Time.Format(time.RFC3339): whole seconds, the fraction is dropped.
FormatRFC3339(t) == t - (t % Second)

\* Position of a status in Pending -> Processing -> {Completed | Failed}.
Rank(s) ==
    CASE s = StatusPending -> 0
      [] s = StatusProcessing -> 1
      [] s = StatusCompleted -> 2
      [] s = StatusFailed -> 2

\* An LPUSH that adds at the end RPOP takes from.
LPushTail(q, v) == q \o <<v>>

(***************************************************************************)
(* Redis primitives                                                        *)
(***************************************************************************)
\* LPUSH key v
LPush(q, v) == <<v>> \o q
\* s without its first occurrence of v.
RECURSIVE RemoveFirst(_, _)
RemoveFirst(s, v) ==
    IF s = <<>> THEN <<>>
    ELSE IF Head(s) = v THEN Tail(s)
    ELSE <<Head(s)>> \o RemoveFirst(Tail(s), v)

\* RPOP key: the element returned and the list left.
RPopValue(q) == q[Len(q)]
\* An RPOP that leaves the list as it was.
RPopRestKeep(q) == q
RPopRest(q) == SubSeq(q, 1, Len(q) - 1)

\* GET job:<id> followed by json.Unmarshal (GetJob): the job or Nil.
GetJob(id) == IF id \in IDs THEN store[id] ELSE Nil

\* SetJob with the expiration left out of the SET: the key never expires.
SetJobNoExpiry(job) ==
    /\ store' = [store EXCEPT ![job.id] = job]
    /\ expireAt' = [expireAt EXCEPT ![job.id] = now + 2 * MaxTime]

\* A SET that has not reached the store when the call goes on.
SetJobNotYet(job) == UNCHANGED storeVars

\* SET job:<id> <json> EX 24h
SetJob(job) ==
    /\ store' = [store EXCEPT ![job.id] = job]
    /\ expireAt' = [expireAt EXCEPT ![job.id] = now + TTL]

\* UpdateJob whose SET never reaches Redis.
UpdateJobNotWritten(job) == UNCHANGED storeVars

\* UpdateJob whose SET keeps the expiry the key already has (KEEPTTL).
UpdateJobKeepTTL(job) ==
    /\ store' = [store EXCEPT ![job.id] = [job EXCEPT !.updated_at = now]]
    /\ UNCHANGED expireAt

\* UpdateJob: stamp updated_at, overwrite the whole record, re-arm the TTL.
UpdateJob(job) == SetJob([job EXCEPT !.updated_at = now])

(***************************************************************************)
(* Initial state: an empty Redis, idle requests and workers.               *)
(***************************************************************************)
\* No transform of the job has failed.
NoFailure == [error |-> Empty, worker |-> 0]

NoResp == [op |-> "none", id |-> EmptyID, code |-> 0, fault |-> "none", body |-> <<>>]

Init ==
    /\ store = [i \in IDs |-> Nil]
    /\ expireAt = [i \in IDs |-> 0]
    /\ queue = <<>>
    /\ now \in 0..(Second - 1)     \* some instant within a second
    /\ files = {}
    /\ ppc = [p \in Producers |-> "idle"]
    /\ pjob = [p \in Producers |-> Nil]
    /\ wpc = [w \in Workers |-> "idle"]
    /\ wid = [w \in Workers |-> EmptyID]
    /\ wjob = [w \in Workers |-> Nil]
    /\ resp = NoResp
    /\ added = [i \in IDs |-> 0]
    /\ returned = [i \in IDs |-> 0]
    /\ delivered = [i \in IDs |-> 0]
    /\ failure = [i \in IDs |-> NoFailure]
    /\ lost = [i \in IDs |-> FALSE]
    /\ waiting = <<>>
    /\ started = [i \in IDs |-> 0]
    /\ skipped = [i \in IDs |-> FALSE]
    /\ gids = <<>>
    /\ gjobs = <<>>
    /\ processingState = "idle"
    /\ jobId = EmptyID
    /\ pollpc = "none"
    /\ pollingTimeout = 0
    /\ api = "starting"
    /\ pinged = FALSE

(***************************************************************************)
(* Startup of the API process                                              *)
(***************************************************************************)
\* NewRedisQueue that skips the test of the connection.
NewRedisQueueNoPing(pingOK) == "queue"

\* NewRedisQueue (redis_queue.go 46-63): the queue, or the error of the
\* ping.
NewRedisQueue(pingOK) == IF pingOK THEN "queue" ELSE "err"

\* main up to the router (part_000 19-47): log.Fatalf ends the process when
\* NewRedisQueue returns an error; otherwise the routes are registered and
\* the server listens.
Main(pingOK) ==
    /\ resp = NoResp
    /\ api = "starting"
    /\ pinged' = pingOK
    /\ api' = IF NewRedisQueue(pingOK) = "err" THEN "exited" ELSE "serving"
    /\ UNCHANGED <<storeVars, queue, now, files, producerVars, workerVars, resp, histVars,
                   listVars, pollVars>>

\* The exited API container is started again (restart: unless-stopped).
Restart ==
    /\ resp = NoResp
    /\ api = "exited"
    /\ api' = "starting"
    /\ pinged' = FALSE
    /\ UNCHANGED <<storeVars, queue, now, files, producerVars, workerVars, resp, histVars,
                   listVars, pollVars>>

(***************************************************************************)
(* HTTP responses                                                          *)
(***************************************************************************)
\* c.JSON(code, gin.H{"error": msg}).  Beside the status code and the body a
\* response is labelled with the handler, the job ID the handler worked on
\* and the call that failed; the client sees code and body only.
ErrorResponse(op, id, code, fault, msg) ==
    [op |-> op, id |-> id, code |-> code, fault |-> fault, body |-> [error |-> msg]]

\* Sum of a history counter over all IDs.
RECURSIVE SumOver(_, _)
SumOver(f, S) ==
    IF S = {} THEN 0
    ELSE LET i == CHOOSE x \in S : TRUE IN f[i] + SumOver(f, S \ {i})

(***************************************************************************)
(* Submit: POST /api/process                                               *)
(***************************************************************************)
\* generateID: 8 bytes of crypto/rand, hex encoded.  Any value can come out;
\* nothing compares it with the IDs already in use.
generateID == IDs

\* ProcessImage up to and including AddJob's SET (handlers.go 41-77,
\* redis_queue.go 76-96).  fault names the first call that fails.  The
\* upload directory is not part of the state.
ProcessImageBegin(p, id, fault) ==
    /\ resp = NoResp
    /\ api = "serving"
    /\ UNCHANGED <<apiVars, listVars, pollVars>>
    /\ ppc[p] = "idle"
    /\ UNCHANGED <<queue, now, files, workerVars, returned, delivered, failure, lost,
                   waiting, started, skipped>>
    /\ CASE fault = "FormFile" ->
              /\ resp' = ErrorResponse("ProcessImage", EmptyID, 400, fault, "No image provided")
              /\ UNCHANGED <<storeVars, producerVars, added>>
         [] fault = "generateID" ->
              /\ resp' = ErrorResponse("ProcessImage", EmptyID, 500, fault, "Failed to generate job ID")
              /\ UNCHANGED <<storeVars, producerVars, added>>
         [] fault = "SaveUploadedFile" ->
              /\ resp' = ErrorResponse("ProcessImage", id, 500, fault, "Failed to save the uploaded file")
              /\ UNCHANGED <<storeVars, producerVars, added>>
         [] fault = "Set" ->
              /\ resp' = ErrorResponse("ProcessImage", id, 500, fault, "Failed to add job to queue")
              /\ UNCHANGED <<storeVars, producerVars, added>>
         [] fault = "none" ->
              LET job == [NewJob(id) EXCEPT !.created_at = now, !.updated_at = now] IN
              /\ SumOver(added, IDs) < MaxSubmits
              /\ SetJob(job)
              /\ ppc' = [ppc EXCEPT ![p] = "lpush"]
              /\ pjob' = [pjob EXCEPT ![p] = job]
              /\ added' = [added EXCEPT ![id] = @ + 1]
              /\ resp' = NoResp

\* The rest of AddJob and of ProcessImage: LPUSH, then the answer
\* (redis_queue.go 98-106, handlers.go 74-83).
ProcessImageEnqueue(p, ok) ==
    /\ resp = NoResp
    /\ api = "serving"
    /\ UNCHANGED <<apiVars, listVars, pollVars>>
    /\ ppc[p] = "lpush"
    /\ ppc' = [ppc EXCEPT ![p] = "idle"]
    /\ pjob' = [pjob EXCEPT ![p] = Nil]
    /\ UNCHANGED <<storeVars, now, files, workerVars, added, delivered, failure, started,
                   skipped>>
    /\ IF pjob[p].status = StatusPending /\ ~ok
       THEN /\ resp' = ErrorResponse("ProcessImage", pjob[p].id, 500, "LPush", "Failed to add job to queue")
            /\ lost' = [lost EXCEPT ![pjob[p].id] = TRUE]
            /\ UNCHANGED <<queue, returned, waiting>>
       ELSE /\ queue' = IF pjob[p].status = StatusPending
                        THEN LPush(queue, pjob[p].id) ELSE queue
            /\ resp' = [op |-> "ProcessImage", id |-> pjob[p].id, code |-> 202,
                        fault |-> "none", body |-> [job_id |-> pjob[p].id, status |-> pjob[p].status]]
            /\ returned' = [returned EXCEPT ![pjob[p].id] = @ + 1]
            /\ waiting' = IF pjob[p].status = StatusPending
                          THEN Append(waiting, pjob[p].id) ELSE waiting
            /\ UNCHANGED lost

(***************************************************************************)
(* Query: GET /api/result?id=                                              *)
(***************************************************************************)
\* StatusInfo without the os.Stat of the output file.
StatusInfoNoStat(job) ==
    CASE job.status = StatusCompleted ->
            [job_id |-> job.id, status |-> job.status,
             result_url |-> <<"/api/download/", job.id>>,
             completed_at |-> FormatRFC3339(job.updated_at)]
      [] job.status = StatusFailed ->
            [job_id |-> job.id, status |-> job.status, error |-> job.error]
      [] job.status = StatusProcessing ->
            [job_id |-> job.id, status |-> job.status,
             started_at |-> FormatRFC3339(job.updated_at)]
      [] OTHER ->
            [job_id |-> job.id, status |-> job.status]

\* StatusInfo with a fixed text in place of the stored error.
StatusInfoGenericError(job) ==
    CASE job.status = StatusCompleted ->
            IF job.output_path \in files
            THEN [job_id |-> job.id, status |-> job.status,
                  result_url |-> <<"/api/download/", job.id>>,
                  completed_at |-> FormatRFC3339(job.updated_at)]
            ELSE [job_id |-> job.id, status |-> job.status,
                  error |-> "Result file not found"]
      [] job.status = StatusFailed ->
            [job_id |-> job.id, status |-> job.status, error |-> "Processing failed"]
      [] job.status = StatusProcessing ->
            [job_id |-> job.id, status |-> job.status,
             started_at |-> FormatRFC3339(job.updated_at)]
      [] OTHER ->
            [job_id |-> job.id, status |-> job.status]

\* The extra keys GetResult adds for the job's status (handlers.go 114-128).
StatusInfo(job) ==
    CASE job.status = StatusCompleted ->
            IF job.output_path \in files   \* os.Stat(job.OutputPath) succeeds
            THEN [job_id |-> job.id, status |-> job.status,
                  result_url |-> <<"/api/download/", job.id>>,
                  completed_at |-> FormatRFC3339(job.updated_at)]
            ELSE [job_id |-> job.id, status |-> job.status,
                  error |-> "Result file not found"]
      [] job.status = StatusFailed ->
            [job_id |-> job.id, status |-> job.status, error |-> job.error]
      [] job.status = StatusProcessing ->
            [job_id |-> job.id, status |-> job.status,
             started_at |-> FormatRFC3339(job.updated_at)]
      [] OTHER ->
            [job_id |-> job.id, status |-> job.status]

\* GetResult with GetJob not telling redis.Nil from an error: a missing
\* record is answered like a store failure.
GetResultResponseNilIsError(id, storeOK) ==
    IF id = EmptyID
    THEN ErrorResponse("GetResult", id, 400, "Query", "Job ID is required")
    ELSE IF ~storeOK
    THEN ErrorResponse("GetResult", id, 500, "GetJob", "Failed to retrieve job")
    ELSE IF GetJob(id) = Nil
    THEN ErrorResponse("GetResult", id, 500, "none", "Failed to retrieve job")
    ELSE [op |-> "GetResult", id |-> id, code |-> 200, fault |-> "none",
          body |-> StatusInfo(GetJob(id))]

\* The response of GetResult to a request for id; storeOK: the GET reached
\* Redis and the value decoded (handlers.go 87-131).
GetResultResponse(id, storeOK) ==
    IF id = EmptyID
    THEN ErrorResponse("GetResult", id, 400, "Query", "Job ID is required")
    ELSE IF ~storeOK
    THEN ErrorResponse("GetResult", id, 500, "GetJob", "Failed to retrieve job")
    ELSE IF GetJob(id) = Nil
    THEN ErrorResponse("GetResult", id, 404, "none", "Job not found")
    ELSE [op |-> "GetResult", id |-> id, code |-> 200, fault |-> "none",
          body |-> StatusInfo(GetJob(id))]

\* GetResult that serves a Completed job once: it deletes the record it
\* has just reported.
GetResultOnce(id, storeOK) ==
    /\ resp = NoResp
    /\ api = "serving"
    /\ UNCHANGED <<apiVars, listVars, pollVars>>
    /\ resp' = GetResultResponse(id, storeOK)
    /\ IF resp'.code = 200 /\ resp'.body.status = StatusCompleted
       THEN /\ store' = [store EXCEPT ![id] = Nil]
            /\ expireAt' = [expireAt EXCEPT ![id] = 0]
       ELSE UNCHANGED storeVars
    /\ UNCHANGED <<queue, now, files, producerVars, workerVars, histVars>>

GetResult(id, storeOK) ==
    /\ resp = NoResp
    /\ api = "serving"
    /\ UNCHANGED <<apiVars, listVars, pollVars>>
    /\ resp' = GetResultResponse(id, storeOK)
    /\ UNCHANGED <<storeVars, queue, now, files, producerVars, workerVars, histVars>>

(***************************************************************************)
(* Fetch artifact: DownloadResult                                          *)
(***************************************************************************)
\* DownloadResult without the tests of handlers.go 150: any stored record
\* is handed to c.File.
DownloadResultResponseAnyStatus(id, storeOK) ==
    IF id = EmptyID
    THEN ErrorResponse("DownloadResult", id, 400, "Param", "Job ID is required")
    ELSE IF ~storeOK
    THEN ErrorResponse("DownloadResult", id, 500, "GetJob", "Failed to retrieve job")
    ELSE IF GetJob(id) = Nil
    THEN ErrorResponse("DownloadResult", id, 404, "none", "Result not available")
    ELSE IF GetJob(id).output_path \in files
    THEN [op |-> "DownloadResult", id |-> id, code |-> 200, fault |-> "none",
          body |-> [file |-> GetJob(id).output_path]]
    ELSE ErrorResponse("DownloadResult", id, 404, "File", "404 page not found")

\* The response of DownloadResult (handlers.go 134-157).  c.File answers
\* with the file, or with net/http's 404 when the path names no file.
DownloadResultResponse(id, storeOK) ==
    IF id = EmptyID
    THEN ErrorResponse("DownloadResult", id, 400, "Param", "Job ID is required")
    ELSE IF ~storeOK
    THEN ErrorResponse("DownloadResult", id, 500, "GetJob", "Failed to retrieve job")
    ELSE IF \/ GetJob(id) = Nil
            \/ GetJob(id).status # StatusCompleted
            \/ GetJob(id).output_path = EmptyPath
    THEN ErrorResponse("DownloadResult", id, 404, "none", "Result not available")
    ELSE IF GetJob(id).output_path \in files
    THEN [op |-> "DownloadResult", id |-> id, code |-> 200, fault |-> "none",
          body |-> [file |-> GetJob(id).output_path]]
    ELSE ErrorResponse("DownloadResult", id, 404, "File", "404 page not found")

\* DownloadResult that writes the record back after reading it, as
\* UpdateJob would.
DownloadResultTouch(id, storeOK) ==
    /\ resp = NoResp
    /\ api = "serving"
    /\ UNCHANGED <<apiVars, listVars, pollVars>>
    /\ resp' = DownloadResultResponse(id, storeOK)
    /\ IF storeOK /\ GetJob(id) # Nil
       THEN UpdateJob(GetJob(id))
       ELSE UNCHANGED storeVars
    /\ UNCHANGED <<queue, now, files, producerVars, workerVars, histVars>>

DownloadResult(id, storeOK) ==
    /\ resp = NoResp
    /\ api = "serving"
    /\ UNCHANGED <<apiVars, listVars, pollVars>>
    /\ resp' = DownloadResultResponse(id, storeOK)
    /\ UNCHANGED <<storeVars, queue, now, files, producerVars, workerVars, histVars>>

(***************************************************************************)
(* The router                                                              *)
(***************************************************************************)
\* The endpoints main registers (part_000 43-47).
Routes == {<<"POST", "/api/process">>, <<"GET", "/api/result">>}

\* The route a GET of url is matched against: the URL's prefix with the
\* job ID as the :id parameter.
RouteOf(url) == <<"GET", url[1] \o ":id">>

\* The URL GetResult hands out for a job (handlers.go 119).
DownloadURL(id) == <<"/api/download/", id>>

\* The server's answer to GET url for a download URL: gin's router runs
\* the handler of a registered route and answers 404 to any other path.
ServeDownloadURLResponse(id, storeOK) ==
    IF RouteOf(DownloadURL(id)) \in Routes
    THEN [DownloadResultResponse(id, storeOK) EXCEPT !.op = "GET /api/download"]
    ELSE ErrorResponse("GET /api/download", id, 404, "NoRoute", "404 page not found")

\* A client requests the download URL of job id.
ServeDownloadURL(id, storeOK) ==
    /\ resp = NoResp
    /\ api = "serving"
    /\ UNCHANGED <<apiVars, listVars, pollVars>>
    /\ resp' = ServeDownloadURLResponse(id, storeOK)
    /\ UNCHANGED <<storeVars, queue, now, files, producerVars, workerVars, histVars>>

(***************************************************************************)
(* GetPendingJobs: LRANGE, then one GetJob per ID                          *)
(***************************************************************************)
\* What GetPendingJobs returns to its caller: the jobs and the error.
PendingJobsResult(jobs, fault) ==
    [op |-> "GetPendingJobs", id |-> EmptyID, code |-> 0, fault |-> fault,
     body |-> [jobs |-> jobs]]

\* LRANGE pending_jobs 0 -1 (redis_queue.go 142-147): the IDs in the list,
\* from the LPUSH end; on an error the call returns it with no jobs.  An
\* empty list leaves the loop nothing to do and the call returns.
GetPendingJobsLRange(ok) ==
    /\ resp = NoResp
    /\ api = "serving"
    /\ gids = <<>>
    /\ IF ~ok
       THEN /\ resp' = PendingJobsResult(<<>>, "LRange")
            /\ UNCHANGED listVars
       ELSE IF queue = <<>>
       THEN /\ resp' = PendingJobsResult(<<>>, "none")
            /\ UNCHANGED listVars
       ELSE /\ gids' = queue
            /\ gjobs' = <<>>
            /\ resp' = NoResp
    /\ UNCHANGED <<storeVars, queue, now, files, producerVars, workerVars, histVars, apiVars,
                   pollVars>>

\* One turn of the loop (redis_queue.go 148-156): GetJob of the next ID; a
\* GetJob that fails is skipped, a job that is found is appended.  After
\* the last ID the call returns the jobs (line 158).
GetPendingJobsGet(storeOK) ==
    /\ resp = NoResp
    /\ api = "serving"
    /\ gids # <<>>
    /\ LET job == IF storeOK THEN GetJob(Head(gids)) ELSE Nil
           jobs == IF job # Nil THEN Append(gjobs, job) ELSE gjobs
       IN  IF Tail(gids) = <<>>
           THEN /\ resp' = PendingJobsResult(jobs, "none")
                /\ gids' = <<>>
                /\ gjobs' = <<>>
           ELSE /\ resp' = NoResp
                /\ gids' = Tail(gids)
                /\ gjobs' = jobs
    /\ UNCHANGED <<storeVars, queue, now, files, producerVars, workerVars, histVars, apiVars,
                   pollVars>>

(***************************************************************************)
(* Dequeue: PopPendingJob, in its two Redis calls                          *)
(***************************************************************************)
\* A dequeue that waits while the transform of any worker is hanging, as
\* if the workers shared one lock.
PopPendingJobRPopLocked(w) ==
    /\ resp = NoResp
    /\ UNCHANGED <<apiVars, listVars, pollVars>>
    /\ wpc[w] = "idle"
    /\ \A v \in Workers : wpc[v] # "stuck"
    /\ queue # <<>>
    /\ queue' = RPopRest(queue)
    /\ wid' = [wid EXCEPT ![w] = RPopValue(queue)]
    /\ wpc' = [wpc EXCEPT ![w] = "popped"]
    /\ delivered' = [delivered EXCEPT ![RPopValue(queue)] = @ + 1]
    /\ resp' = NoResp
    /\ waiting' = RemoveFirst(waiting, RPopValue(queue))
    /\ UNCHANGED <<storeVars, now, files, producerVars, wjob, added, returned, failure, lost,
                   started, skipped>>

\* RPOP pending_jobs (redis_queue.go 164-170).  On an empty list or a store
\* error the caller gets no job and nothing changes.
PopPendingJobRPop(w) ==
    /\ resp = NoResp
    /\ UNCHANGED <<apiVars, listVars, pollVars>>
    /\ wpc[w] = "idle"
    /\ queue # <<>>
    /\ queue' = RPopRest(queue)
    /\ wid' = [wid EXCEPT ![w] = RPopValue(queue)]
    /\ wpc' = [wpc EXCEPT ![w] = "popped"]
    /\ delivered' = [delivered EXCEPT ![RPopValue(queue)] = @ + 1]
    /\ resp' = NoResp
    /\ waiting' = RemoveFirst(waiting, RPopValue(queue))
    /\ UNCHANGED <<storeVars, now, files, producerVars, wjob, added, returned, failure, lost,
                   started, skipped>>

\* return q.GetJob(ctx, jobID) (redis_queue.go 172): the job, or nothing when
\* the record is gone or the GET fails; the ID is not put back.
\* What PopPendingJob returns to worker w, which has RPOPed wid[w]: the
\* pair (job, err) of GetJob.  On an empty queue PopPendingJob returns
\* NoJob without a GET.
NoJob == [job |-> Nil, err |-> FALSE]

\* PopPendingJob that reports a missing record as an error.
PopPendingJobResultStrict(w, storeOK) ==
    IF storeOK /\ GetJob(wid[w]) # Nil
    THEN [job |-> GetJob(wid[w]), err |-> FALSE]
    ELSE [job |-> Nil, err |-> TRUE]

PopPendingJobResult(w, storeOK) ==
    IF storeOK
    THEN [job |-> GetJob(wid[w]), err |-> FALSE]
    ELSE [job |-> Nil, err |-> TRUE]

\* A skip that puts the ID it could not load back in the queue.
PopPendingJobGetRequeue(w, storeOK) ==
    /\ resp = NoResp
    /\ UNCHANGED <<apiVars, listVars, pollVars>>
    /\ wpc[w] = "popped"
    /\ IF PopPendingJobResult(w, storeOK).job # Nil
       THEN /\ wjob' = [wjob EXCEPT ![w] = PopPendingJobResult(w, storeOK).job]
            /\ wpc' = [wpc EXCEPT ![w] = "loaded"]
            /\ UNCHANGED <<wid, lost, skipped, queue>>
       ELSE /\ wpc' = [wpc EXCEPT ![w] = "idle"]
            /\ wid' = [wid EXCEPT ![w] = EmptyID]
            /\ lost' = [lost EXCEPT ![wid[w]] = TRUE]
            /\ skipped' = [skipped EXCEPT ![wid[w]] = @ \/ PopPendingJobResult(w, storeOK) = NoJob]
            /\ queue' = LPush(queue, wid[w])
            /\ UNCHANGED wjob
    /\ resp' = NoResp
    /\ UNCHANGED <<storeVars, now, files, producerVars, added, returned,
                   delivered, failure, waiting, started>>

PopPendingJobGet(w, storeOK) ==
    /\ resp = NoResp
    /\ UNCHANGED <<apiVars, listVars, pollVars>>
    /\ wpc[w] = "popped"
    /\ IF PopPendingJobResult(w, storeOK).job # Nil
       THEN /\ wjob' = [wjob EXCEPT ![w] = PopPendingJobResult(w, storeOK).job]
            /\ wpc' = [wpc EXCEPT ![w] = "loaded"]
            /\ UNCHANGED <<wid, lost, skipped>>
       ELSE /\ wpc' = [wpc EXCEPT ![w] = "idle"]
            /\ wid' = [wid EXCEPT ![w] = EmptyID]
            /\ lost' = [lost EXCEPT ![wid[w]] = TRUE]
            /\ skipped' = [skipped EXCEPT ![wid[w]] = @ \/ PopPendingJobResult(w, storeOK) = NoJob]
            /\ UNCHANGED wjob
    /\ resp' = NoResp
    /\ UNCHANGED <<storeVars, queue, now, files, producerVars, added, returned,
                   delivered, failure, waiting, started>>

(***************************************************************************)
(* Worker loop (spec.md 4.4, steps 3-6)                                    *)
(***************************************************************************)
\* Step 3: transition to Processing via update.
WorkerStart(w) ==
    /\ resp = NoResp
    /\ UNCHANGED <<apiVars, listVars, pollVars>>
    /\ wpc[w] = "loaded"
    /\ LET job == [wjob[w] EXCEPT !.status = StatusProcessing] IN
         /\ UpdateJob(job)
         /\ wjob' = [wjob EXCEPT ![w] = [job EXCEPT !.updated_at = now]]
    /\ wpc' = [wpc EXCEPT ![w] = "processing"]
    /\ started' = [started EXCEPT ![wjob[w].id] = @ + 1]
    /\ resp' = NoResp
    /\ UNCHANGED <<queue, now, files, producerVars, wid, added, returned, delivered,
                   failure, lost, waiting, skipped>>

\* Steps 4-5, success: the transform produced output_ref; update to Completed.
WorkerSucceed(w) ==
    /\ resp = NoResp
    /\ UNCHANGED <<apiVars, listVars, pollVars>>
    /\ wpc[w] = "processing"
    /\ files' = files \cup {ResultPath(wjob[w].id)}
    /\ UpdateJob([wjob[w] EXCEPT !.status = StatusCompleted,
                                 !.output_path = ResultPath(wjob[w].id)])
    /\ wpc' = [wpc EXCEPT ![w] = "idle"]
    /\ wid' = [wid EXCEPT ![w] = EmptyID]
    /\ wjob' = [wjob EXCEPT ![w] = Nil]
    /\ resp' = NoResp
    /\ UNCHANGED <<queue, now, producerVars, histVars>>

\* Steps 4-5, failure: the transform failed with message e; update to Failed.
WorkerFail(w, e) ==
    /\ resp = NoResp
    /\ UNCHANGED <<apiVars, listVars, pollVars>>
    /\ wpc[w] = "processing"
    /\ UpdateJob([wjob[w] EXCEPT !.status = StatusFailed, !.error = e])
    /\ wpc' = [wpc EXCEPT ![w] = "idle"]
    /\ wid' = [wid EXCEPT ![w] = EmptyID]
    /\ wjob' = [wjob EXCEPT ![w] = Nil]
    /\ failure' = [failure EXCEPT ![wjob[w].id] = [error |-> e, worker |-> w]]
    /\ resp' = NoResp
    /\ UNCHANGED <<queue, now, files, producerVars, added, returned, delivered, lost,
                   waiting, started, skipped>>

\* Step 4, no return: the transform of worker w hangs; the worker calls
\* nothing from then on.  At least one other worker is left running.
TransformHangs(w) ==
    /\ resp = NoResp
    /\ UNCHANGED <<apiVars, listVars, pollVars>>
    /\ wpc[w] = "processing"
    /\ \E v \in Workers \ {w} : wpc[v] # "stuck"
    /\ wpc' = [wpc EXCEPT ![w] = "stuck"]
    /\ resp' = NoResp
    /\ UNCHANGED <<storeVars, queue, now, files, producerVars, wid, wjob, histVars>>

\* A crash after which the job's ID is found in the queue again.
WorkerCrashRequeue(w) ==
    /\ resp = NoResp
    /\ UNCHANGED <<apiVars, listVars, pollVars>>
    /\ wpc[w] # "idle"
    /\ wpc' = [wpc EXCEPT ![w] = "idle"]
    /\ wid' = [wid EXCEPT ![w] = EmptyID]
    /\ wjob' = [wjob EXCEPT ![w] = Nil]
    /\ queue' = LPush(queue, wid[w])
    /\ resp' = NoResp
    /\ UNCHANGED <<storeVars, now, files, producerVars, histVars>>

\* A worker process dies holding a job and is started again
\* (restart: unless-stopped); what it held is lost.
WorkerCrash(w) ==
    /\ resp = NoResp
    /\ UNCHANGED <<apiVars, listVars, pollVars>>
    /\ wpc[w] # "idle"
    /\ wpc' = [wpc EXCEPT ![w] = "idle"]
    /\ wid' = [wid EXCEPT ![w] = EmptyID]
    /\ wjob' = [wjob EXCEPT ![w] = Nil]
    /\ resp' = NoResp
    /\ UNCHANGED <<storeVars, queue, now, files, producerVars, histVars>>

(***************************************************************************)
(* Environment: time and the results directory                             *)
(***************************************************************************)
\* Keys whose expiry time has come are gone (Redis EX).
Expire(t) ==
    /\ store' = [i \in IDs |-> IF store[i] # Nil /\ expireAt[i] <= t
                               THEN Nil ELSE store[i]]
    /\ expireAt' = [i \in IDs |-> IF store[i] # Nil /\ expireAt[i] <= t
                                  THEN 0 ELSE expireAt[i]]

\* Half a day passes; time is counted from when the API serves.  No call of AddJob or PopPendingJob lasts that long:
\* the clock advances between calls, and while a transform runs.
Tick ==
    /\ resp = NoResp
    /\ api = "serving"
    /\ UNCHANGED <<apiVars, listVars, pollVars>>
    /\ \A p \in Producers : ppc[p] = "idle"
    /\ \A w \in Workers : wpc[w] # "popped"
    /\ now + HalfDay <= MaxTime
    /\ now' = now + HalfDay
    /\ Expire(now + HalfDay)
    /\ resp' = NoResp
    /\ UNCHANGED <<queue, files, producerVars, workerVars, histVars>>

\* A result file disappears from the results directory.
RemoveResultFile(path) ==
    /\ resp = NoResp
    /\ UNCHANGED <<apiVars, listVars, pollVars>>
    /\ path \in files
    /\ files' = files \ {path}
    /\ resp' = NoResp
    /\ UNCHANGED <<storeVars, queue, now, producerVars, workerVars, histVars>>

(***************************************************************************)
(* The browser: ImageProcessor.js                                          *)
(***************************************************************************)
\* Polling interval (2000 ms).
POLLING_INTERVAL == 2 * Second

\* handleProcess after the POST (ImageProcessor.js 68-80): with a job_id
\* in the answer the browser polls for it at once; an error answer ends in
\* the 'error' state.
handleProcess ==
    /\ resp.op = "ProcessImage"
    /\ processingState = "idle"
    /\ resp' = NoResp
    /\ IF resp.code = 202 /\ "job_id" \in DOMAIN resp.body
       THEN /\ processingState' = "processing"
            /\ jobId' = resp.body.job_id
            /\ pollpc' = "get"
       ELSE /\ processingState' = "error"
            /\ UNCHANGED <<jobId, pollpc>>
    /\ UNCHANGED <<storeVars, queue, now, files, producerVars, workerVars, histVars,
                   apiVars, listVars, pollingTimeout>>

\* poll, the request (line 87): GET /api/result?id=<jobId>.
pollGet(storeOK) ==
    /\ resp = NoResp
    /\ api = "serving"
    /\ pollpc = "get"
    /\ resp' = GetResultResponse(jobId, storeOK)
    /\ pollpc' = "await"
    /\ UNCHANGED <<storeVars, queue, now, files, producerVars, workerVars, histVars,
                   apiVars, listVars, processingState, jobId, pollingTimeout>>

\* poll, the answer (lines 89-122).  axios rejects an answer that is not
\* 2xx, which ends in the catch block; 'completed' with a result_url and
\* 'failed' stop the polling; anything else arms the next poll.
pollAnswer ==
    /\ resp.op = "GetResult"
    /\ pollpc = "await"
    /\ resp' = NoResp
    /\ UNCHANGED jobId
    /\ IF resp.code # 200
       THEN /\ processingState' = "error"
            /\ pollpc' = "none"
            /\ UNCHANGED pollingTimeout
       ELSE IF resp.body.status = "completed" /\ "result_url" \in DOMAIN resp.body
       THEN /\ processingState' = "completed"
            /\ pollpc' = "none"
            /\ UNCHANGED pollingTimeout
       ELSE IF resp.body.status = "failed"
       THEN /\ processingState' = "error"
            /\ pollpc' = "none"
            /\ UNCHANGED pollingTimeout
       ELSE /\ pollpc' = "timeout"
            /\ pollingTimeout' = POLLING_INTERVAL
            /\ UNCHANGED processingState
    /\ UNCHANGED <<storeVars, queue, now, files, producerVars, workerVars, histVars,
                   apiVars, listVars>>

\* The timeout of line 116 fires and calls poll.
pollTimeout ==
    /\ resp = NoResp
    /\ pollpc = "timeout"
    /\ pollpc' = "get"
    /\ pollingTimeout' = 0
    /\ UNCHANGED <<storeVars, queue, now, files, producerVars, workerVars, histVars,
                   apiVars, listVars, processingState, jobId, resp>>

(***************************************************************************)
(* Specification                                                           *)
(***************************************************************************)
\* The client takes the response off the wire.
ClientReceive ==
    /\ resp # NoResp
    /\ UNCHANGED <<apiVars, listVars, pollVars>>
    /\ resp' = NoResp
    /\ UNCHANGED <<storeVars, queue, now, files, producerVars, workerVars, histVars>>

SubmitFaults == {"none", "FormFile", "generateID", "SaveUploadedFile", "Set"}

\* Every step but the start of a Submit.
Others ==
    \/ \E p \in Producers, ok \in BOOLEAN : ProcessImageEnqueue(p, ok)
    \/ \E id \in IDs \cup {EmptyID}, ok \in BOOLEAN : GetResult(id, ok)
    \/ \E id \in IDs \cup {EmptyID}, ok \in BOOLEAN : DownloadResult(id, ok)
    \/ \E id \in IDs, ok \in BOOLEAN : ServeDownloadURL(id, ok)
    \/ \E w \in Workers : PopPendingJobRPop(w)
    \/ \E w \in Workers, ok \in BOOLEAN : PopPendingJobGet(w, ok)
    \/ \E w \in Workers : WorkerStart(w)
    \/ \E w \in Workers : WorkerSucceed(w)
    \/ \E w \in Workers, e \in TransformErrors : WorkerFail(w, e)
    \/ \E w \in Workers : WorkerCrash(w)
    \/ Tick
    \/ \E id \in IDs : RemoveResultFile(ResultPath(id))
    \/ ClientReceive
    \/ \E ok \in BOOLEAN : Main(ok)
    \/ Restart

\* A response is received before anything else happens (every action waits
\* for resp = NoResp): handlers answer within their last step, so every
\* interleaving of the store and the queue is kept.
Next ==
    \/ \E p \in Producers, id \in generateID, f \in SubmitFaults :
          ProcessImageBegin(p, id, f)
    \/ Others

Spec == Init /\ [][Next]_vars

\* The runs of Spec in which crypto/rand never repeats an ID that AddJob
\* has already stored.
FreshIDs == {i \in generateID : added[i] = 0}

NextFresh ==
    \/ \E p \in Producers, id \in FreshIDs, f \in SubmitFaults :
          ProcessImageBegin(p, id, f)
    \/ Others

SpecFresh == Init /\ [][NextFresh]_vars

\* The runs in which no worker crashes, every transform succeeds and no
\* record expires.
NextLive ==
    \/ \E p \in Producers, id \in generateID, f \in SubmitFaults :
          ProcessImageBegin(p, id, f)
    \/ \E p \in Producers, ok \in BOOLEAN : ProcessImageEnqueue(p, ok)
    \/ \E id \in IDs \cup {EmptyID}, ok \in BOOLEAN : GetResult(id, ok)
    \/ \E id \in IDs \cup {EmptyID}, ok \in BOOLEAN : DownloadResult(id, ok)
    \/ \E id \in IDs, ok \in BOOLEAN : ServeDownloadURL(id, ok)
    \/ \E w \in Workers : PopPendingJobRPop(w)
    \/ \E w \in Workers, ok \in BOOLEAN : PopPendingJobGet(w, ok)
    \/ \E w \in Workers : WorkerStart(w)
    \/ \E w \in Workers : WorkerSucceed(w)
    \/ \E id \in IDs : RemoveResultFile(ResultPath(id))
    \/ ClientReceive
    \/ \E ok \in BOOLEAN : Main(ok)
    \/ Restart

\* One step of worker w's loop: dequeue, load, start, finish.
WorkerStep(w) ==
    \/ PopPendingJobRPop(w)
    \/ \E ok \in BOOLEAN : PopPendingJobGet(w, ok)
    \/ WorkerStart(w)
    \/ WorkerSucceed(w)

\* A Submit that has written its record goes on to its LPUSH, every
\* worker's loop keeps running, every job keeps being polled with the store
\* reachable again and again, and responses arrive.
Fairness ==
    /\ \A p \in Producers : SF_vars(\E ok \in BOOLEAN : ProcessImageEnqueue(p, ok))
    /\ \A w \in Workers : SF_vars(WorkerStep(w))
    /\ \A i \in IDs : SF_vars(GetResult(i, TRUE))
    /\ WF_vars(ClientReceive)

LiveSpec == Init /\ [][NextLive]_vars /\ Fairness

\* The runs in which a transform can hang, no worker process dies, and
\* every worker whose transform is not hanging keeps running its loop.
\* Submits that fail before AddJob's SET and Queries change nothing and
\* are left out.
NextStuck ==
    \/ \E p \in Producers, id \in generateID : ProcessImageBegin(p, id, "none")
    \/ \E p \in Producers, ok \in BOOLEAN : ProcessImageEnqueue(p, ok)
    \/ \E w \in Workers : PopPendingJobRPop(w)
    \/ \E w \in Workers, ok \in BOOLEAN : PopPendingJobGet(w, ok)
    \/ \E w \in Workers : WorkerStart(w)
    \/ \E w \in Workers : WorkerSucceed(w)
    \/ \E w \in Workers, e \in TransformErrors : WorkerFail(w, e)
    \/ \E w \in Workers : TransformHangs(w)
    \/ Tick
    \/ ClientReceive
    \/ \E ok \in BOOLEAN : Main(ok)
    \/ Restart

\* One step of worker w's loop, the transform ending either way.
WorkerLoopStep(w) ==
    \/ WorkerStep(w)
    \/ \E e \in TransformErrors : WorkerFail(w, e)

FairnessStuck ==
    /\ \A p \in Producers : SF_vars(\E ok \in BOOLEAN : ProcessImageEnqueue(p, ok))
    /\ \A w \in Workers : SF_vars(WorkerLoopStep(w))
    /\ WF_vars(ClientReceive)

StuckSpec == Init /\ [][NextStuck]_vars /\ FairnessStuck

\* The runs in which a caller of the JobQueue interface lists the pending
\* jobs while Submits add jobs and workers dequeue and update them.  No
\* worker process dies; Submits that fail before AddJob's SET and Queries
\* change nothing and are left out.
NextList ==
    \/ \E p \in Producers, id \in generateID : ProcessImageBegin(p, id, "none")
    \/ \E p \in Producers, ok \in BOOLEAN : ProcessImageEnqueue(p, ok)
    \/ \E w \in Workers : PopPendingJobRPop(w)
    \/ \E w \in Workers, ok \in BOOLEAN : PopPendingJobGet(w, ok)
    \/ \E w \in Workers : WorkerStart(w)
    \/ \E w \in Workers : WorkerSucceed(w)
    \/ \E w \in Workers, e \in TransformErrors : WorkerFail(w, e)
    \/ \E ok \in BOOLEAN : GetPendingJobsLRange(ok)
    \/ \E ok \in BOOLEAN : GetPendingJobsGet(ok)
    \/ Tick
    \/ ClientReceive
    \/ \E ok \in BOOLEAN : Main(ok)
    \/ Restart

ListSpec == Init /\ [][NextList]_vars

\* An answer that is not to the browser's poll is received.
OtherReceive == resp.op # "GetResult" /\ ClientReceive

\* One step of the browser's polling.
pollForResults ==
    \/ \E ok \in BOOLEAN : pollGet(ok)
    \/ pollAnswer
    \/ pollTimeout

\* The runs in which one browser submits an image and polls for the result
\* while other Submits and the workers run; the output file of a job can
\* disappear.  No worker process dies and no record expires.
NextPoll ==
    \/ \E p \in Producers, id \in generateID : ProcessImageBegin(p, id, "none")
    \/ \E p \in Producers, ok \in BOOLEAN : ProcessImageEnqueue(p, ok)
    \/ \E w \in Workers : PopPendingJobRPop(w)
    \/ \E w \in Workers, ok \in BOOLEAN : PopPendingJobGet(w, ok)
    \/ \E w \in Workers : WorkerStart(w)
    \/ \E w \in Workers : WorkerSucceed(w)
    \/ \E w \in Workers, e \in TransformErrors : WorkerFail(w, e)
    \/ \E id \in IDs : RemoveResultFile(ResultPath(id))
    \/ handleProcess
    \/ \E ok \in BOOLEAN : pollGet(ok)
    \/ pollAnswer
    \/ pollTimeout
    \/ OtherReceive
    \/ \E ok \in BOOLEAN : Main(ok)
    \/ Restart

\* Submits go on to their LPUSH, the workers keep looping, the browser
\* keeps polling and answers arrive.
FairnessPoll ==
    /\ \A p \in Producers : SF_vars(\E ok \in BOOLEAN : ProcessImageEnqueue(p, ok))
    /\ \A w \in Workers : SF_vars(WorkerLoopStep(w))
    /\ SF_vars(pollForResults)
    /\ WF_vars(OtherReceive)

PollSpec == Init /\ [][NextPoll]_vars /\ FairnessPoll

(***************************************************************************)
(* Properties                                                              *)
(***************************************************************************)
\* Jobs currently stored.
Stored == {i \in IDs : store[i] # Nil}

\* C1 (as claimed): each enqueued ID is handed to exactly one worker: no ID
\* is returned by more than one dequeue, so no ID goes through more than one
\* Pending -> Processing transition.  It fails when two Submits draw the
\* same ID (C3) and holds in SpecFresh.
C1_DequeueExclusive ==
    /\ \A i \in IDs : delivered[i] <= 1
    /\ \A v, w \in Workers : (v # w /\ wid[v] # EmptyID) => wid[v] # wid[w]

\* C2 (as claimed): no write moves a stored record to an earlier status, and
\* a Completed or Failed record keeps its status.  It fails when a second
\* Submit draws the ID of a stored record (C3) and holds in SpecFresh.
C2_StatusMonotone ==
    [][\A i \in IDs :
          (store[i] # Nil /\ store'[i] # Nil) =>
              /\ Rank(store[i].status) <= Rank(store'[i].status)
              /\ Rank(store[i].status) = 2 => store'[i].status = store[i].status]_vars

\* C3 (as claimed): the IDs Submit returns are pairwise distinct: no ID is
\* returned by two Submits.
C3_DistinctIDs == \A i \in IDs : returned[i] <= 1

\* C4 (as claimed): a record created at time T is gone at every time
\* >= T + 24h, whatever updates were made before.
C4_ExpiresAfterCreation ==
    \A i \in Stored : now < store[i].created_at + TTL

\* C4 (amended): a record is gone at every time >= W + 24h, where W is the
\* time of its most recent write (AddJob or UpdateJob): every write re-arms
\* the 24h expiry.
C4_ExpiresAfterLastWrite ==
    \A i \in Stored : now < store[i].updated_at + TTL

\* C4 witness: a Query answers "Job not found" for a job that was submitted,
\* dequeued and written at least once after its creation.
C4_Witness ==
    /\ resp.op = "GetResult" /\ resp.code = 404
    /\ resp.id \in IDs /\ added[resp.id] > 0 /\ delivered[resp.id] > 0
    /\ now >= 2 * TTL - HalfDay

\* C5: for a non-empty ID, Query answers 404 "Job not found" exactly when
\* the store was read and holds no record for the ID; a stored Pending job
\* is answered 200 with status "pending"; a store failure is answered 500,
\* which is neither.
C5_NotFoundIffNoRecord ==
    (resp.op = "GetResult" /\ resp.id \in IDs) =>
        /\ (resp.code = 404) <=> (resp.fault = "none" /\ store[resp.id] = Nil)
        /\ resp.code = 404 => resp.body = [error |-> "Job not found"]
        /\ (resp.fault = "none" /\ store[resp.id] # Nil) =>
               /\ resp.code = 200
               /\ store[resp.id].status = StatusPending =>
                      resp.body = [job_id |-> resp.id, status |-> "pending"]
        /\ resp.fault = "GetJob" => resp.code = 500

\* C5 witness: "Job not found" for an ID that was never submitted, while a
\* submitted job is stored as Pending.
C5_Witness ==
    /\ resp.op = "GetResult" /\ resp.code = 404
    /\ resp.id \in IDs /\ added[resp.id] = 0
    /\ \E j \in Stored : store[j].status = StatusPending /\ returned[j] > 0

\* A Query answered from a stored record.
QueryOK == resp.op = "GetResult" /\ resp.code = 200

C7_SubmitAllOrNothing ==
    resp.op = "ProcessImage" =>
        /\ resp.code = 202 =>
               /\ resp.body = [job_id |-> resp.id, status |-> "pending"]
               /\ added[resp.id] = 1 /\ returned[resp.id] = 1
               /\ queue # <<>> /\ Head(queue) = resp.id
        /\ resp.fault = "Set" =>
               /\ resp.code = 500 /\ "job_id" \notin DOMAIN resp.body
               /\ store[resp.id] = Nil
               /\ \A k \in 1..Len(queue) : queue[k] # resp.id

\* C10: DownloadResult serves a file only for a stored Completed record
\* with a non-empty output reference whose file is on disk, and it is that
\* file; for an unknown or expired ID and for a Pending, Processing or
\* Failed job it answers 404 "Result not available".
C10_ServesOnlyCompleted ==
    (resp.op = "DownloadResult" /\ resp.id \in IDs) =>
        /\ resp.code = 200 =>
               /\ store[resp.id] # Nil
               /\ store[resp.id].status = StatusCompleted
               /\ store[resp.id].output_path # EmptyPath
               /\ store[resp.id].output_path \in files
               /\ resp.body = [file |-> store[resp.id].output_path]
        /\ (resp.fault # "GetJob" /\
            (store[resp.id] = Nil \/ store[resp.id].status # StatusCompleted)) =>
               /\ resp.code = 404
               /\ resp.body = [error |-> "Result not available"]

\* C10 witness: a Completed job's file is served while another job is
\* stored as Failed.
C10_Witness ==
    /\ resp.op = "DownloadResult" /\ resp.code = 200
    /\ \E j \in IDs : j # resp.id /\ store[j] # Nil /\ store[j].status = StatusFailed

\* A Query of i answered "completed".
QueryCompleted(i) ==
    QueryOK /\ resp.id = i /\ resp.body.status = "completed"

\* Before any dequeue has returned its ID, a submitted job is reported
\* as pending.
PendingUntilClaimed ==
    (QueryOK /\ returned[resp.id] > 0 /\ delivered[resp.id] = 0) =>
        resp.body = [job_id |-> resp.id, status |-> "pending"]

FailureCaptured ==
    \A i \in IDs :
        failure'[i] # failure[i] =>
            /\ store'[i] # Nil
            /\ store'[i].status = StatusFailed
            /\ store'[i].error = failure'[i].error
            /\ store'[i].error \in TransformErrors
            /\ expireAt'[i] = now + TTL
            /\ wpc'[failure'[i].worker] = "idle"
            /\ wid'[failure'[i].worker] = EmptyID

\* Every Query that finds the record Failed returns the stored error as
\* it is; a Query that finds no record answers 404.
FailedReported ==
    (resp.op = "GetResult" /\ resp.id \in IDs /\ resp.fault = "none") =>
        /\ (store[resp.id] # Nil /\ store[resp.id].status = StatusFailed) =>
               /\ resp.code = 200
               /\ resp.body = [job_id |-> resp.id, status |-> "failed",
                               error |-> store[resp.id].error]
        /\ store[resp.id] = Nil => resp.code = 404

C11_ResultURLRouted ==
    /\ (QueryOK /\ "result_url" \in DOMAIN resp.body) =>
           RouteOf(resp.body.result_url) \in Routes
    /\ (/\ resp.op = "GET /api/download"
        /\ resp.fault # "GetJob"
        /\ store[resp.id] # Nil
        /\ store[resp.id].status = StatusCompleted
        /\ store[resp.id].output_path \in files) =>
           /\ resp.code = 200
           /\ resp.body = [file |-> store[resp.id].output_path]

ReadOps == {"GetResult", "DownloadResult", "GET /api/download"}

\* C13: GetJob, GetResult and DownloadResult are read-only: a step that
\* answers a Query or a download request, whatever the answer, and the GET
\* that follows a dequeue leave every record, every record's expiry time,
\* the pending queue and the result files as they were.
C13_ReadOnly ==
    [][((resp' # resp /\ resp'.op \in ReadOps)
        \/ (\E w \in Workers : wpc[w] = "popped" /\ wpc'[w] # "popped"))
       => (store' = store /\ expireAt' = expireAt /\ queue' = queue /\ files' = files)]_vars

\* C13 witness: a download request is refused for a stored record while an
\* ID is queued.
C13_Witness ==
    /\ resp.op = "DownloadResult" /\ resp.code = 404
    /\ store[resp.id] # Nil
    /\ queue # <<>>

\* Number of entries of the pending queue that are ID i.
CountInQueue(i) == Cardinality({k \in 1..Len(queue) : queue[k] = i})

\* C14 (as claimed): the queue holds only job IDs, each at most once, and
\* every ID in it has a Pending record.  Stated for IDs submitted once, so
\* that it does not fail through C3.
C14_QueueHoldsPending ==
    \A k \in 1..Len(queue) :
        /\ queue[k] \in IDs
        /\ added[queue[k]] = 1 =>
               /\ CountInQueue(queue[k]) = 1
               /\ store[queue[k]] # Nil
               /\ store[queue[k]].status = StatusPending

\* C14 (amended): the queue holds only IDs of submitted jobs, exactly one
\* entry for every enqueue that succeeded and has not been dequeued, and
\* a queued ID that no dequeue has returned yet has a Pending record or no
\* record at all: the record expires 24 hours after its last write and the
\* queue entry does not.
C14_QueueHoldsPendingOrExpired ==
    /\ \A k \in 1..Len(queue) :
          /\ queue[k] \in IDs
          /\ added[queue[k]] >= 1
          /\ delivered[queue[k]] = 0 =>
                 \/ store[queue[k]] = Nil
                 \/ store[queue[k]].status = StatusPending
    /\ \A i \in IDs :
          /\ CountInQueue(i) + delivered[i] = returned[i]
          /\ returned[i] <= added[i]

\* C14 witness: an ID is queued and its record has expired.
C14_Witness ==
    \E k \in 1..Len(queue) :
        /\ store[queue[k]] = Nil
        /\ now >= TTL

\* C15 (as claimed): a record has a non-empty output reference only if
\* its status is Completed and a non-empty error only if its status is
\* Failed.  It fails when an ID is enqueued twice (C3): the second worker
\* loads the first one's outcome and writes it back as Processing.  It
\* holds in SpecFresh.
C15_FieldsMatchStatus ==
    \A i \in Stored :
        /\ store[i].output_path # EmptyPath => store[i].status = StatusCompleted
        /\ store[i].error # Empty => store[i].status = StatusFailed

\* A request has been accepted: an answer is in flight or a Submit is
\* between its two store calls.
Accepted == resp # NoResp \/ \E p \in Producers : ppc[p] # "idle"

\* C16: a failed ping at startup is fatal: the API process serves only
\* after its ping has reached the store, a process whose ping failed has
\* exited, and no request is accepted by a process that is not serving.
C16_StartupFatal ==
    /\ api = "serving" => pinged
    /\ api = "exited" => ~pinged
    /\ Accepted => (api = "serving" /\ pinged)

\* C16 witness: the ping failed and the process has exited, having
\* accepted nothing.
C16_Witness ==
    /\ api = "exited"
    /\ ~pinged
    /\ ~Accepted

\* C17: the queue is FIFO: every dequeue returns the ID whose enqueue
\* completed first among the IDs enqueued and not yet dequeued, so an ID
\* whose enqueue completed before another's began is dequeued before it.
C17_FIFO ==
    [][\A w \in Workers :
          (wpc[w] = "idle" /\ wpc'[w] = "popped") =>
              /\ waiting # <<>>
              /\ wid'[w] = Head(waiting)
              /\ waiting' = Tail(waiting)]_vars

\* C17 witness: two different IDs were waiting and a dequeue has returned
\* the one enqueued first.
C17_Witness ==
    /\ Len(waiting) = 1
    /\ \E w \in Workers :
          /\ wpc[w] = "popped"
          /\ wid[w] # waiting[1]
          /\ returned[wid[w]] = 1 /\ delivered[wid[w]] = 1
          /\ returned[waiting[1]] = 1 /\ delivered[waiting[1]] = 0
    /\ \A w \in Workers : wpc[w] \in {"idle", "popped"}

\* A dequeue step of worker w: its RPOP.
Dequeues(w) == wpc[w] = "idle" /\ wpc'[w] = "popped"

C19_AttemptedOnce ==
    \A i \in IDs :
        /\ started[i] <= 1
        /\ CountInQueue(i) + delivered[i] = returned[i]

\* No worker holds ID i.
Unheld(i) == \A w \in Workers : wid[w] # i

\* The job of ID i is out of every worker's reach: it has a record without
\* an outcome, and its ID is neither queued, nor held by a worker, nor
\* about to be enqueued by a Submit.
Orphan(i) ==
    /\ store[i] # Nil
    /\ store[i].status \in {StatusPending, StatusProcessing}
    /\ CountInQueue(i) = 0
    /\ Unheld(i)
    /\ \A p \in Producers : ppc[p] = "lpush" => pjob[p].id # i

\* C20 (as claimed): after the worker that dequeued an ID has crashed
\* before writing an outcome, the record stays Pending.  Stated for IDs
\* submitted once, so that it does not fail through C3.
C20_CrashLeavesPending ==
    \A i \in IDs :
        (added[i] = 1 /\ delivered[i] = 1 /\ Orphan(i)) =>
            store[i].status = StatusPending

\* C20 (amended): a worker that lets go of an ID, by a crash or otherwise,
\* puts nothing back in the queue and, if it crashes, writes nothing: the
\* record keeps the status it had, Pending if the crash came before the
\* update to Processing and Processing if it came after.  From then on the
\* ID is in no queue and in no worker's hands, and the job stays that way,
\* with its record unchanged, until the record expires or a Submit
\* overwrites it.
C20_CrashOrphans ==
    /\ [][\A w \in Workers :
             (wpc[w] # "idle" /\ wpc'[w] = "idle") =>
                 /\ queue' = queue
                 /\ waiting' = waiting
                 /\ store' # store =>
                        /\ store'[wid[w]] # Nil
                        /\ store'[wid[w]].status \in {StatusCompleted, StatusFailed}]_vars
    /\ [][\A i \in IDs :
             (Orphan(i) /\ added'[i] = added[i]) =>
                 /\ store'[i] = store[i] \/ store'[i] = Nil
                 /\ store'[i] # Nil => Orphan(i)']_vars

\* C20 witness: a job submitted once and dequeued once is left Processing,
\* its ID in no queue and in no worker's hands.
C20_Witness ==
    \E i \in IDs :
        /\ added[i] = 1 /\ delivered[i] = 1
        /\ Orphan(i)
        /\ store[i].status = StatusProcessing

\* Number of Submits whose SET of ID i succeeded and whose LPUSH failed:
\* the records written, less the Submits answered 202 and those still
\* between the two calls.
LPushFailures(i) ==
    added[i] - returned[i]
      - Cardinality({p \in Producers : ppc[p] = "lpush" /\ pjob[p].id = i})

\* C21 (as claimed): when AddJob's SET succeeds and its LPUSH fails,
\* Submit answers an error, the record is stored as Pending and a Query
\* shows it, its ID is not in the queue, and from then on nothing enqueues
\* the ID or changes the record: it stays Pending until it expires.  It
\* fails when the same ID is drawn by another Submit (C3) and holds in
\* SpecFresh.
C21_EnqueueFailureOrphans ==
    /\ [](resp.fault = "LPush" =>
             /\ resp.op = "ProcessImage" /\ resp.code = 500
             /\ "job_id" \notin DOMAIN resp.body
             /\ store[resp.id] # Nil
             /\ store[resp.id].status = StatusPending
             /\ CountInQueue(resp.id) = 0)
    /\ [](\A i \in IDs :
             LPushFailures(i) > 0 =>
                 /\ CountInQueue(i) = 0
                 /\ Unheld(i)
                 /\ store[i] # Nil =>
                        /\ store[i].status = StatusPending
                        /\ GetResultResponse(i, TRUE).code = 200
                        /\ GetResultResponse(i, TRUE).body =
                               [job_id |-> i, status |-> "pending"])
    /\ [][\A i \in IDs :
             LPushFailures(i) > 0 =>
                 /\ store'[i] = store[i] \/ store'[i] = Nil
                 /\ (store[i] # Nil /\ store'[i] = Nil) =>
                        now' >= store[i].created_at + TTL]_vars

\* Worker w ends its dequeue without a job.
Skips(w) == wpc[w] = "popped" /\ wpc'[w] = "idle"

\* C22: a dequeued ID whose record is missing, or whose GET or decoding
\* fails, is skipped and consumption goes on: the worker loads a job only
\* if the record exists and was read, and it is that record; otherwise the
\* ID, already out of the queue, is dropped: the skip writes no record,
\* changes no expiry, puts nothing in the queue, starts no transform and
\* leaves the worker ready for its next dequeue, which returns the oldest
\* of the IDs still waiting.
C22_SkipMissing ==
    /\ [][\A w \in Workers :
             /\ (wpc[w] = "popped" /\ wpc'[w] = "loaded") =>
                    /\ store[wid[w]] # Nil
                    /\ wjob'[w] = store[wid[w]]
             /\ (wpc[w] = "popped" /\ store[wid[w]] = Nil /\ wpc'[w] # "popped") =>
                    Skips(w)
             /\ Skips(w) =>
                    /\ store' = store /\ expireAt' = expireAt
                    /\ queue' = queue /\ waiting' = waiting
                    /\ started' = started
                    /\ wid'[w] = EmptyID /\ wjob'[w] = Nil]_vars
    /\ [][\A w \in Workers :
             Dequeues(w) => (wid'[w] = Head(waiting) /\ queue' = RPopRest(queue))]_vars
    /\ [](\A w \in Workers :
             wpc[w] \in {"loaded", "processing"} => (wjob[w] # Nil /\ wjob[w].id = wid[w]))

\* C22 witness: the record of a job submitted once expired while its ID
\* was queued; the ID was dequeued, no record was found and it was
\* dropped without a transform, and consumption goes on: a worker has
\* dequeued another ID.
C22_Witness ==
    \E i \in IDs, w \in Workers :
        /\ added[i] = 1 /\ returned[i] = 1 /\ delivered[i] = 1
        /\ skipped[i] /\ started[i] = 0
        /\ store[i] = Nil /\ now >= TTL
        /\ CountInQueue(i) = 0 /\ Unheld(i)
        /\ wpc[w] = "popped" /\ wid[w] # i
        /\ \A v \in Workers \ {w} : wpc[v] = "idle"

\* The step writes the record of ID i.
Writes(i) == store'[i] # Nil /\ (store'[i] # store[i] \/ expireAt'[i] # expireAt[i])

\* C23: every write of a record, by AddJob or by UpdateJob, stores the
\* whole record under its own ID with updated_at set to the current time
\* and arms the key's expiry to 24 hours from then; AddJob also sets
\* created_at to that time, UpdateJob writes the caller's copy with its
\* created_at.  So updated_at >= created_at in every stored record,
\* updated_at never decreases, and a record is stored at every time before
\* its last write plus 24 hours and at no time from then on.
C23_UpdateRearmsTTL ==
    /\ [][\A i \in IDs :
             Writes(i) =>
                 /\ store'[i].id = i
                 /\ store'[i].updated_at = now /\ now' = now
                 /\ expireAt'[i] = now + TTL
                 /\ \/ /\ added'[i] = added[i] + 1
                       /\ store'[i] = [NewJob(i) EXCEPT !.created_at = now, !.updated_at = now]
                    \/ /\ added'[i] = added[i]
                       /\ \E w \in Workers :
                             /\ wjob[w] # Nil /\ wjob[w].id = i
                             /\ store'[i].created_at = wjob[w].created_at
                             /\ store'[i].input_path = wjob[w].input_path]_vars
    /\ [](\A i \in Stored :
             /\ store[i].updated_at >= store[i].created_at
             /\ expireAt[i] = store[i].updated_at + TTL
             /\ now < expireAt[i])
    /\ [][\A i \in Stored :
             /\ store'[i] # Nil => store'[i].updated_at >= store[i].updated_at
             /\ store'[i] = Nil => now' >= store[i].updated_at + TTL]_vars

\* C23 witness: a job created more than 24 hours ago is still stored,
\* Completed, less than 24 hours after the update that completed it.
C23_Witness ==
    \E i \in Stored :
        /\ store[i].status = StatusCompleted
        /\ store[i].updated_at > store[i].created_at
        /\ now >= store[i].created_at + TTL
        /\ now < store[i].updated_at + TTL

\* The record of a submitted job is gone: it has expired, the only way a
\* record leaves the store.
Expired(i) == added[i] > 0 /\ store[i] = Nil

\* C24 (as claimed): expiry is permanent: once the record of a submitted
\* job has expired, so that a Query answers "Job not found", no write of
\* the worker that dequeued the job brings a record back, and every later
\* Query answers "Job not found" again.  Stated for IDs submitted once, so
\* that it does not fail through C3.
C24_ExpiryPermanent ==
    [][\A i \in IDs :
          (Expired(i) /\ added[i] = 1 /\ added'[i] = 1) =>
              /\ store'[i] = Nil
              /\ GetResultResponse(i, TRUE)' = GetResultResponse(i, TRUE)
              /\ GetResultResponse(i, TRUE).code = 404]_vars

\* The actors that have ID i in hand: the workers that dequeued it and
\* have not finished with it, and the Submits between their SET and their
\* LPUSH of it.
WorkersHolding(i) == {w \in Workers : wid[w] = i}
ProducersHolding(i) == {p \in Producers : ppc[p] = "lpush" /\ pjob[p].id = i}

\* C25 (as claimed): single writer: at no time do two workers, or a
\* worker and a Submit, have the same ID in hand; after AddJob's SET a record is written only by the one
\* worker that dequeued its ID, and what that worker overwrites is the
\* record it loaded (or nothing, if the record has expired), so no update
\* is lost.  It fails when two Submits draw the same ID (C3) and holds in
\* SpecFresh.
C25_SingleWriter ==
    /\ [](\A i \in IDs :
             /\ Cardinality(WorkersHolding(i)) <= 1
             /\ WorkersHolding(i) # {} => ProducersHolding(i) = {})
    /\ [][\A i \in IDs :
             (Writes(i) /\ added'[i] = added[i]) =>
                 \E w \in WorkersHolding(i) :
                     /\ wjob[w] # Nil
                     /\ delivered[i] = 1
                     /\ store[i] = Nil \/ store[i] = wjob[w]]_vars

\* The transform of some worker is hanging on ID i.
StuckOn(i) == \E w \in Workers : wpc[w] = "stuck" /\ wid[w] = i

\* The record of ID i has an outcome.
Terminal(i) == store[i] # Nil /\ store[i].status \in {StatusCompleted, StatusFailed}

\* A worker whose transform hangs stays where it is.
StuckForGood ==
    \A w \in Workers :
        wpc[w] = "stuck" => (wpc'[w] = "stuck" /\ wid'[w] = wid[w] /\ wjob'[w] = wjob[w])

NoRecovery ==
    \A w \in Workers :
        wpc[w] = "stuck" =>
            LET i == wid[w] IN
            /\ Len(queue') > Len(queue) => returned' # returned
            /\ store'[i] # store[i] =>
                   \/ store'[i] = Nil
                   \/ added'[i] > added[i]
                   \/ \E v \in Workers \ {w} : wid[v] = i

ListStep == gids' # gids \/ (resp' # resp /\ resp'.op = "GetPendingJobs")

\* C27 (as claimed): GetPendingJobs returns pending jobs only: whatever
\* AddJob, PopPendingJob and UpdateJob calls run beside it, each job in
\* the list it returns has status Pending; an ID whose record is missing
\* or cannot be read contributes no job; and no step of the call changes
\* the queue or a record.  The first part is stated for IDs submitted
\* once, so that it does not fail through C3.
C27_PendingJobsOnly ==
    /\ [](resp.op = "GetPendingJobs" =>
             \A k \in 1..Len(resp.body.jobs) :
                 /\ resp.body.jobs[k] # Nil
                 /\ added[resp.body.jobs[k].id] = 1 =>
                        resp.body.jobs[k].status = StatusPending)
    /\ [][ListStep =>
             /\ store' = store /\ expireAt' = expireAt /\ queue' = queue
             /\ (gids # <<>> /\ store[Head(gids)] = Nil) =>
                    (IF resp'.op = "GetPendingJobs"
                     THEN resp'.body.jobs ELSE gjobs') = gjobs]_vars

\* C28: AddJob writes the record before it pushes the ID: at the step that
\* puts an ID in the queue the record of that ID is stored, written by an
\* earlier step; a record leaves the store only by expiring, 24 hours after
\* its last write.  So every ID in the queue and every ID a worker has
\* dequeued has had its record written, and a dequeue finds no record only
\* for a record that has expired.
C28_RecordBeforePush ==
    /\ [][\A i \in IDs :
             CountInQueue(i)' > CountInQueue(i) =>
                 /\ added[i] >= 1
                 /\ store[i] # Nil
                 /\ store'[i] = store[i]]_vars
    /\ [][\A i \in Stored :
             store'[i] = Nil =>
                 (now' > now /\ now' >= store[i].updated_at + TTL)]_vars
    /\ [](/\ \A k \in 1..Len(queue) : queue[k] \in IDs /\ added[queue[k]] >= 1
          /\ \A w \in Workers :
                wpc[w] # "idle" =>
                    /\ wid[w] \in IDs /\ added[wid[w]] >= 1
                    /\ (wpc[w] = "popped" /\ PopPendingJobResult(w, TRUE) = NoJob) =>
                           (Expired(wid[w]) /\ now >= TTL))

\* C28 witness: a worker has dequeued the ID of a job submitted in the
\* same instant, and the job's Pending record is there to be read.
C28_Witness ==
    \E w \in Workers :
        /\ wpc[w] = "popped"
        /\ added[wid[w]] = 1
        /\ store[wid[w]] # Nil
        /\ store[wid[w]].status = StatusPending
        /\ store[wid[w]].created_at = now
        /\ PopPendingJobResult(w, TRUE).job = store[wid[w]]

\* The browser polls for job i.
Polling(i) == processingState = "processing" /\ jobId = i

\* The browser sends a Query.
Queries == pollpc = "get" /\ pollpc' = "await"

\* C29 (as claimed): the browser re-queries every 2 seconds while the job
\* is pending or processing and stops when the job is terminal: an answer
\* that reports pending or processing arms the next Query 2 seconds
\* later; an answer that reports completed or failed ends the polling in
\* the 'completed' or 'error' state; out of the 'processing' state no
\* Query is sent; and once the record of the job it polls is Completed or
\* Failed, the browser eventually leaves its 'processing' state.  The last
\* part is stated for IDs submitted once, so that it does not fail
\* through C3.
C29_PollingStops ==
    /\ [][/\ (pollpc = "await" /\ resp.code = 200
              /\ resp.body.status \in {"pending", "processing"}) =>
                 (/\ processingState' = "processing"
                  /\ pollpc' = "timeout"
                  /\ pollingTimeout' = POLLING_INTERVAL)
          /\ (pollpc = "await" /\ resp.code = 200
              /\ resp.body.status \in {"completed", "failed"}) =>
                 (/\ processingState' \in {"completed", "error"}
                  /\ pollpc' = "none")
          /\ Queries => (processingState = "processing" /\ resp'.id = jobId)]_vars
    /\ [](processingState \in {"completed", "error"} => pollpc = "none")
    /\ \A i \in IDs :
          (Polling(i) /\ Terminal(i) /\ added[i] = 1) ~>
              (processingState \in {"completed", "error"} \/ added[i] > 1)

=============================================================================
